---- MODULE Spec2Model ----
(***************************************************************************)
(* Legal Management System API: the FastAPI handlers of main.py over the   *)
(* Pydantic schemas of schemas.py and the document-store adapter           *)
(* (database.py: db, create_document, get_documents).                      *)
(*                                                                         *)
(* Encoding of values                                                      *)
(*   - an Optional[...] value is None (<<>>) or Some(v) (<<v>>);           *)
(*   - the searchable texts (title, name, description, content) are        *)
(*     sequences of one-character strings, every other str is a string;    *)
(*   - a payload is a function from the field names the JSON body holds    *)
(*     to their values; a stored document is the validated model's dump    *)
(*     plus "_id";                                                         *)
(*   - a result list is the set of its documents: the store gives no       *)
(*     order, and documents differ in "_id".                               *)
(***************************************************************************)
EXTENDS Integers, Sequences, FiniteSets, TLC

VARIABLES
    db,           \* database.db: "connected", or "none" when no store is configured
    store,        \* the store: collection name -> set of documents
    nextId,       \* the store's identifier generator (the next identifier)
    req,          \* the request being answered (sequential handlers)
    resp,         \* its response
    last_create,  \* history: the request before `req`, when it was a successful create
    th            \* concurrent create requests: thread -> its handler's position and locals

vars == <<db, store, nextId, req, resp, last_create, th>>

\* ------------------------------------------------------------------ bounds

\* At most this many documents are inserted in one behaviour.
MaxRecords == 2

\* ------------------------------------------------------------------ values

None == <<>>
Some(v) == <<v>>

Min(a, b) == IF a < b THEN a ELSE b
Max(a, b) == IF a > b THEN a ELSE b

Collections ==
    {"client", "case", "task", "invoice", "setting", "legaldocument", "assistantmessage"}

\* schemas.py docstring: the collection name is the lowercase of the class name.
ModelOf(coll) ==
    CASE coll = "client" -> "Client"
      [] coll = "case" -> "Case"
      [] coll = "task" -> "Task"
      [] coll = "invoice" -> "Invoice"
      [] coll = "setting" -> "Setting"
      [] coll = "legaldocument" -> "LegalDocument"
      [] coll = "assistantmessage" -> "AssistantMessage"

\* ----------------------------------------------------------------- schemas

\* The fields declared with Field(...) or without a default.
Required(model) ==
    CASE model = "Client" -> {"name"}
      [] model = "Case" -> {"title", "client_id"}
      [] model = "Task" -> {"title"}
      [] model = "Invoice" -> {"client_id"}
      [] model = "Setting" -> {"key"}
      [] model = "LegalDocument" -> {"title", "content"}
      [] model = "AssistantMessage" -> {"content"}

\* Mutant: the Task defaults copied from a model whose first enum value is the default.
DefaultsTaskSlip(model) ==
    CASE model = "Client" ->
           [email |-> None, phone |-> None, address |-> None, type |-> "individual",
            notes |-> None, status |-> "active"]
      [] model = "Case" ->
           [description |-> None, matter_number |-> None, practice_area |-> None,
            status |-> "open", priority |-> "medium", opened_at |-> None,
            closed_at |-> None, assignees |-> <<>>, tags |-> <<>>]
      [] model = "Task" ->
           [case_id |-> None, description |-> None, assignee_id |-> None,
            status |-> "todo", priority |-> "low", due_date |-> None,
            checklist |-> <<>>]
      [] model = "Invoice" ->
           [case_id |-> None, number |-> None, currency |-> "USD", items |-> <<>>,
            status |-> "draft", issued_at |-> None, due_at |-> None, notes |-> None,
            total |-> None]
      [] model = "Setting" -> [value |-> <<>>, scope |-> "org", user_id |-> None]
      [] model = "LegalDocument" ->
           [jurisdiction |-> None, practice_area |-> None, doc_type |-> None,
            year |-> None, source |-> None, tags |-> <<>>]
      [] model = "AssistantMessage" ->
           [role |-> "user", conversation_id |-> None, related_case_id |-> None]

\* The declared default of every field that has one (default_factory=list and
\* default_factory=dict both give the empty value <<>>).
Defaults(model) ==
    CASE model = "Client" ->
           [email |-> None, phone |-> None, address |-> None, type |-> "individual",
            notes |-> None, status |-> "active"]
      [] model = "Case" ->
           [description |-> None, matter_number |-> None, practice_area |-> None,
            status |-> "open", priority |-> "medium", opened_at |-> None,
            closed_at |-> None, assignees |-> <<>>, tags |-> <<>>]
      [] model = "Task" ->
           [case_id |-> None, description |-> None, assignee_id |-> None,
            status |-> "todo", priority |-> "medium", due_date |-> None,
            checklist |-> <<>>]
      [] model = "Invoice" ->
           [case_id |-> None, number |-> None, currency |-> "USD", items |-> <<>>,
            status |-> "draft", issued_at |-> None, due_at |-> None, notes |-> None,
            total |-> None]
      [] model = "Setting" -> [value |-> <<>>, scope |-> "org", user_id |-> None]
      [] model = "LegalDocument" ->
           [jurisdiction |-> None, practice_area |-> None, doc_type |-> None,
            year |-> None, source |-> None, tags |-> <<>>]
      [] model = "AssistantMessage" ->
           [role |-> "user", conversation_id |-> None, related_case_id |-> None]

\* The Literal[...] fields and their allowed values.
Enums(model) ==
    CASE model = "Client" ->
           [type |-> {"individual", "organization"},
            status |-> {"active", "inactive", "prospect"}]
      [] model = "Case" ->
           [status |-> {"open", "closed", "on_hold"},
            priority |-> {"low", "medium", "high", "urgent"}]
      [] model = "Task" ->
           [status |-> {"todo", "in_progress", "done"},
            priority |-> {"low", "medium", "high", "urgent"}]
      [] model = "Invoice" ->
           [currency |-> {"USD", "EUR", "GBP", "AUD", "CAD", "INR", "JPY", "CNY"},
            status |-> {"draft", "sent", "paid", "overdue", "void"}]
      [] model = "Setting" -> [scope |-> {"org", "user"}]
      [] model = "LegalDocument" -> <<>>
      [] model = "AssistantMessage" -> [role |-> {"user", "assistant", "system"}]

\* Invoice.total: Optional[float] = Field(None, ge=0).
TotalOk(model, P) ==
    (model = "Invoice" /\ "total" \in DOMAIN P /\ P["total"] # None) => P["total"][1] >= 0

\* Mutant: Invoice.total declared without ge=0.
ValidateNoGe(model, P) ==
    /\ Required(model) \subseteq DOMAIN P
    /\ \A f \in DOMAIN P \cap DOMAIN Enums(model) : P[f] \in Enums(model)[f]

\* FastAPI's validation of a request body against the handler's model.
Validate(model, P) ==
    /\ Required(model) \subseteq DOMAIN P
    /\ \A f \in DOMAIN P \cap DOMAIN Enums(model) : P[f] \in Enums(model)[f]
    /\ TotalOk(model, P)

\* The validated model instance, dumped: the payload's fields, the others at
\* their defaults.
Dump(model, P) ==
    [f \in DOMAIN P \cup DOMAIN Defaults(model) |->
        IF f \in DOMAIN P THEN P[f] ELSE Defaults(model)[f]]

\* ------------------------------------------------------------- the store

NoDiag == [database |-> "", connection_status |-> "", collections |-> {}]

Resp(status, id, body) == [status |-> status, id |-> id, body |-> body, diag |-> NoDiag]

NoCreate == [coll |-> "", payload |-> <<>>, id |-> 0]

IdleThread ==
    [pc |-> "idle", coll |-> "", model |-> "", payload |-> <<>>, id |-> 0,
     status |-> 0, out |-> 0]

Threads == {1, 2}

\* The sizes a collection may have before the process starts: empty, or one
\* document short of some endpoint's default limit.
PrefillSizes == {0, 49, 99}

\* Bound: the documents inserted since the process started are at most MaxRecords.
CanInsert ==
    LET base == CHOOSE n \in PrefillSizes :
                    n < nextId /\ \A m \in PrefillSizes : m < nextId => m <= n
    IN  nextId - base <= MaxRecords

\* insert_one: the store assigns the identifier and persists the document.
InsertOne(coll, doc) ==
    [store EXCEPT ![coll] = @ \cup {doc @@ ("_id" :> nextId)}]

\* The k-element subsets of S.
RECURSIVE KSubsets(_, _)
KSubsets(S, k) ==
    IF k = 0 THEN {{}}
    ELSE UNION {{T \cup {x} : T \in KSubsets(S \ {x}, k - 1)} : x \in S}

\* The searchable keys of _query's $or clause.
SearchKeys == {"title", "name", "description", "content"}

\* str.lower() on the model's alphabet {a, b, A, B, .}.
Lower(c) == IF c = "A" THEN "a" ELSE IF c = "B" THEN "b" ELSE c

\* One pattern character against one text character, under $options "i":
\* "." is the wildcard, any other character of the alphabet is a literal.
AtomMatch(pc, c) == pc = "." \/ Lower(pc) = Lower(c)

\* {"$regex": p, "$options": "i"}: the pattern p matches somewhere in text s.
RegexSearch(p, s) ==
    \E i \in 1..(Len(s) - Len(p) + 1) :
        \A j \in 1..Len(p) : AtomMatch(p[j], s[i + j - 1])

\* The string value document d holds under key f, if any (a missing key and a
\* null are no string: a $regex clause on them matches nothing).
FieldText(d, f) ==
    IF f \notin DOMAIN d THEN {}
    ELSE IF f = "description" THEN (IF d[f] = None THEN {} ELSE {d[f][1]})
    ELSE {d[f]}

\* The filter keys whose stored value is a plain str; the others are Optional.
PlainKeys == {"client_id", "status", "scope"}

\* The equality clause {f: v} on document d.
FieldEq(d, f, v) ==
    /\ f \in DOMAIN d
    /\ IF f \in PlainKeys THEN d[f] = v ELSE d[f] = Some(v)

\* A filter is [eq |-> the equality clauses, or |-> None or Some(the $regex term)].
Matches(d, filter_dict) ==
    /\ \A f \in DOMAIN filter_dict.eq : FieldEq(d, f, filter_dict.eq[f])
    /\ filter_dict.or # None =>
          \E f \in SearchKeys : \E s \in FieldText(d, f) : RegexSearch(filter_dict.or[1], s)

\* find(filter).limit(limit): up to `limit` of the matching documents, which
\* ones being the store's choice.
Find(coll, filter_dict, limit) ==
    LET M == {d \in store[coll] : Matches(d, filter_dict)}
        n == Cardinality(M)
        k == Min(Max(limit, 0), n)
    IN  IF 2 * k <= n THEN KSubsets(M, k) ELSE {M \ D : D \in KSubsets(M, n - k)}

\* database.get_documents: the possible outcomes [status, body] of a read.
get_documents(coll, filter_dict, limit) ==
    IF db = "none" THEN {[status |-> 500, body |-> {}]}
    ELSE {[status |-> 200, body |-> S] : S \in Find(coll, filter_dict, limit)}

\* --------------------------------------------------------------- handlers

\* Python truthiness of an optional str, int and text query parameter.
TruthyStr(o) == o # None /\ o[1] # ""
TruthyInt(o) == o # None /\ o[1] # 0
TruthyText(o) == o # None /\ o[1] # <<>>

\* `extra`: the parameters of `args` that are truthy, with their values.
ExtraOf(args, truthy) == [f \in {g \in DOMAIN args : g \in truthy} |-> args[f][1]]

StrExtra(args) == ExtraOf(args, {g \in DOMAIN args : TruthyStr(args[g])})

\* The limit a handler works with: the query parameter, or its default.
Lim(limit, default) == IF limit = None THEN default ELSE limit[1]

\* The bookkeeping of every sequential handler: the request it answers, and
\* whether the one before it was a successful create.
Answer(op, coll, payload, q, args, limit) ==
    /\ req' = [op |-> op, coll |-> coll, payload |-> payload, q |-> q, args |-> args,
               limit |-> limit]
    /\ last_create' = IF req.op = "create" /\ resp.status = 200
                      THEN [coll |-> req.coll, payload |-> req.payload, id |-> resp.id]
                      ELSE NoCreate
    /\ UNCHANGED <<db, th>>

\* The shared list helper: `extra` plus, for a truthy q, the $or of $regex clauses.
_query(collection, q, extra, limit) ==
    get_documents(collection,
                  [eq |-> extra, or |-> IF TruthyText(q) THEN Some(q[1]) ELSE None], limit)

\* A list handler's response: one of the outcomes of its read.
Listing(outcomes) ==
    /\ \E out \in outcomes : resp' = Resp(out.status, 0, out.body)
    /\ UNCHANGED <<store, nextId>>

\* The body of a create handler: FastAPI validates the request body against
\* `model` (422 on failure), then create_document(collection, payload) inserts
\* the dump and the handler answers {"id": _id}; create_document raises when
\* db is None (500).
Persist(collection, model, P) ==
    IF ~Validate(model, P)
    THEN resp' = Resp(422, 0, {}) /\ UNCHANGED <<store, nextId>>
    ELSE IF db = "none"
    THEN resp' = Resp(500, 0, {}) /\ UNCHANGED <<store, nextId>>
    ELSE /\ CanInsert
         /\ store' = InsertOne(collection, Dump(model, P))
         /\ nextId' = nextId + 1
         /\ resp' = Resp(200, nextId, {})

\* A create request on the endpoint of entity `coll`.
Posted(coll, P) == Answer("create", coll, P, None, <<>>, None)

read_root ==
    /\ Answer("root", "", <<>>, None, <<>>, None)
    /\ resp' = Resp(200, 0, {})
    /\ UNCHANGED <<store, nextId>>

\* db.list_collection_names(): the collections that hold a document.
list_collection_names == {c \in Collections : store[c] # {}}

\* Mutant: the db-is-None check and the enclosing try are missing, so that
\* db.list_collection_names() on None propagates.
test_databaseNoGuard ==
    /\ Answer("test", "", <<>>, None, <<>>, None)
    /\ UNCHANGED <<store, nextId>>
    /\ IF db # "none"
       THEN resp' = [Resp(200, 0, {}) EXCEPT !.diag =
                        [database |-> "Connected & Working",
                         connection_status |-> "Connected",
                         collections |-> list_collection_names]]
       ELSE resp' = Resp(500, 0, {})

\* GET /test. The environment fields (database_url, database_name) are left
\* out; `fault` is db.list_collection_names() raising, which the inner except
\* turns into a status string.
test_database ==
    /\ Answer("test", "", <<>>, None, <<>>, None)
    /\ UNCHANGED <<store, nextId>>
    /\ IF db # "none"
       THEN \E fault \in BOOLEAN :
              resp' = [Resp(200, 0, {}) EXCEPT !.diag =
                         IF fault
                         THEN [database |-> "Connected but Error",
                               connection_status |-> "Connected",
                               collections |-> {}]
                         ELSE [database |-> "Connected & Working",
                               connection_status |-> "Connected",
                               collections |-> list_collection_names]]
       ELSE resp' = [Resp(200, 0, {}) EXCEPT !.diag =
                        [database |-> "Available but not initialized",
                         connection_status |-> "Not Connected",
                         collections |-> {}]]

get_schema ==
    /\ Answer("schema", "", <<>>, None, <<>>, None)
    /\ resp' = Resp(200, 0, Collections)
    /\ UNCHANGED <<store, nextId>>

\* Mutant: the handler writes to the collection of the handler it was copied from.
create_clientWrongCollection(payload) ==
    Posted("client", payload) /\ Persist("case", "Client", payload)

create_client(payload) == Posted("client", payload) /\ Persist("client", "Client", payload)

list_clients(q, limit) ==
    /\ Answer("list", "client", <<>>, q, <<>>, limit)
    /\ Listing(_query("client", q, <<>>, Lim(limit, 50)))

create_case(payload) == Posted("case", payload) /\ Persist("case", "Case", payload)

list_cases(q, client_id, status, limit) ==
    LET args == [client_id |-> client_id, status |-> status] IN
    /\ Answer("list", "case", <<>>, q, args, limit)
    /\ Listing(_query("case", q, StrExtra(args), Lim(limit, 50)))

create_task(payload) == Posted("task", payload) /\ Persist("task", "Task", payload)

list_tasks(case_id, status, assignee_id, limit) ==
    LET args == [case_id |-> case_id, status |-> status, assignee_id |-> assignee_id] IN
    /\ Answer("list", "task", <<>>, None, args, limit)
    /\ Listing(get_documents("task", [eq |-> StrExtra(args), or |-> None], Lim(limit, 50)))

create_invoice(payload) == Posted("invoice", payload) /\ Persist("invoice", "Invoice", payload)

list_invoices(client_id, case_id, status, limit) ==
    LET args == [client_id |-> client_id, case_id |-> case_id, status |-> status] IN
    /\ Answer("list", "invoice", <<>>, None, args, limit)
    /\ Listing(get_documents("invoice", [eq |-> StrExtra(args), or |-> None],
                             Lim(limit, 50)))

\* Mutant: the setting is upserted by key, replacing the stored one.
create_settingUpsert(payload) ==
    /\ Posted("setting", payload)
    /\ IF ~Validate("Setting", payload)
       THEN resp' = Resp(422, 0, {}) /\ UNCHANGED <<store, nextId>>
       ELSE IF db = "none"
       THEN resp' = Resp(500, 0, {}) /\ UNCHANGED <<store, nextId>>
       ELSE /\ CanInsert
            /\ store' = [store EXCEPT !["setting"] =
                            {d \in @ : d["key"] # payload["key"]}
                            \cup {Dump("Setting", payload) @@ ("_id" :> nextId)}]
            /\ nextId' = nextId + 1
            /\ resp' = Resp(200, nextId, {})

create_setting(payload) == Posted("setting", payload) /\ Persist("setting", "Setting", payload)

list_settings(scope, user_id, limit) ==
    LET args == [scope |-> scope, user_id |-> user_id] IN
    /\ Answer("list", "setting", <<>>, None, args, limit)
    /\ Listing(get_documents("setting", [eq |-> StrExtra(args), or |-> None],
                             Lim(limit, 100)))

create_legal_doc(payload) == Posted("legaldocument", payload) /\ Persist("legaldocument", "LegalDocument", payload)

search_legal_docs(q, practice_area, jurisdiction, year, limit) ==
    LET strs == [practice_area |-> practice_area, jurisdiction |-> jurisdiction]
        args == strs @@ [year |-> year]
        extra == StrExtra(strs) @@ (IF TruthyInt(year) THEN [year |-> year[1]] ELSE <<>>)
    IN
    /\ Answer("list", "legaldocument", <<>>, q, args, limit)
    /\ Listing(_query("legaldocument", q, extra, Lim(limit, 50)))

add_message(payload) == Posted("assistantmessage", payload) /\ Persist("assistantmessage", "AssistantMessage", payload)

list_messages(conversation_id, related_case_id, limit) ==
    LET args == [conversation_id |-> conversation_id,
                 related_case_id |-> related_case_id] IN
    /\ Answer("list", "assistantmessage", <<>>, None, args, limit)
    /\ Listing(get_documents("assistantmessage", [eq |-> StrExtra(args), or |-> None],
                             Lim(limit, 100)))

\* --------------------------------------------- concurrent create requests

\* The handlers run on a thread pool; a create request suspends only at the
\* store call, so it is three steps: the body is validated and the handler
\* entered, create_document inserts, the handler returns {"id": _id}.
create_begin(t, coll, model, P) ==
    /\ th[t].pc = "idle"
    /\ th' = [th EXCEPT ![t] =
                 IF Validate(model, P)
                 THEN [@ EXCEPT !.pc = "entered", !.coll = coll, !.model = model,
                                !.payload = P]
                 ELSE [@ EXCEPT !.pc = "done", !.coll = coll, !.model = model,
                                !.payload = P, !.status = 422]]
    /\ UNCHANGED <<db, store, nextId, req, resp, last_create>>

create_insert(t) ==
    /\ th[t].pc = "entered"
    /\ IF db = "none"
       THEN /\ th' = [th EXCEPT ![t] = [@ EXCEPT !.pc = "done", !.status = 500]]
            /\ UNCHANGED <<store, nextId>>
       ELSE /\ store' = InsertOne(th[t].coll, Dump(th[t].model, th[t].payload))
            /\ nextId' = nextId + 1
            /\ th' = [th EXCEPT ![t] = [@ EXCEPT !.pc = "inserted", !.id = nextId]]
    /\ UNCHANGED <<db, req, resp, last_create>>

\* Mutant: the handler answers with the identifier the store assigned last,
\* not with the result of its own insert.
create_returnLatest(t) ==
    /\ th[t].pc = "inserted"
    /\ th' = [th EXCEPT ![t] = [@ EXCEPT !.pc = "done", !.status = 200,
                                         !.out = nextId - 1]]
    /\ UNCHANGED <<db, store, nextId, req, resp, last_create>>

create_return(t) ==
    /\ th[t].pc = "inserted"
    /\ th' = [th EXCEPT ![t] = [@ EXCEPT !.pc = "done", !.status = 200, !.out = th[t].id]]
    /\ UNCHANGED <<db, store, nextId, req, resp, last_create>>

\* ------------------------------------------------------------------ inputs

ab == <<"a", "b">>
bA == <<"b", "A">>
adot == <<"a", ".">>

\* Bodies with the required fields only.
MinimalPayloads(coll) ==
    CASE coll = "client" -> {[name |-> ab]}
      [] coll = "case" -> {[title |-> ab, client_id |-> "c1"]}
      [] coll = "task" -> {[title |-> ab]}
      [] coll = "invoice" -> {[client_id |-> "c1"]}
      [] coll = "setting" -> {[key |-> "theme"]}
      [] coll = "legaldocument" -> {[title |-> ab, content |-> bA]}
      [] coll = "assistantmessage" -> {[content |-> ab]}

\* Bodies that set optional, enum, list and map fields.
RichPayloads(coll) ==
    CASE coll = "client" ->
           {[name |-> adot, type |-> "organization", status |-> "prospect"]}
      [] coll = "case" ->
           {[title |-> bA, description |-> Some(adot), client_id |-> "c1",
             status |-> "closed", tags |-> <<"ip">>]}
      [] coll = "task" ->
           {[title |-> ab, case_id |-> Some("k1"), status |-> "done",
             checklist |-> <<[text |-> "draft", done |-> FALSE]>>]}
      [] coll = "invoice" ->
           {[client_id |-> "c1", case_id |-> Some("k1"), status |-> "paid",
             total |-> Some(0)]}
      [] coll = "setting" ->
           {[key |-> "theme", value |-> [mode |-> "dark"], scope |-> "user",
             user_id |-> Some("u1")]}
      [] coll = "legaldocument" ->
           {[title |-> bA, content |-> adot, jurisdiction |-> Some("US"),
             year |-> Some(1999)]}
      [] coll = "assistantmessage" ->
           {[content |-> ab, role |-> "assistant", conversation_id |-> Some("v1")]}

ValidPayloads(coll) == MinimalPayloads(coll) \cup RichPayloads(coll)

\* Bodies with an enum field outside its declared set.
BadEnumPayloads(coll) ==
    CASE coll = "client" -> {[name |-> ab, status |-> "vip"]}
      [] coll = "case" -> {[title |-> ab, client_id |-> "c1", priority |-> "asap"]}
      [] coll = "task" -> {[title |-> ab, status |-> "blocked"]}
      [] coll = "invoice" -> {[client_id |-> "c1", currency |-> "BTC"]}
      [] coll = "setting" -> {[key |-> "theme", scope |-> "team"]}
      [] coll = "legaldocument" -> {}
      [] coll = "assistantmessage" -> {[content |-> ab, role |-> "bot"]}

\* Invoices with a negative total.
NegativeTotalPayloads(coll) ==
    IF coll = "invoice" THEN {[client_id |-> "c1", total |-> Some(0 - 5)]} ELSE {}

\* Bodies that lack a required field.
MissingFieldPayloads(coll) ==
    IF coll = "legaldocument" THEN {[title |-> ab]} ELSE {}

InvalidPayloads(coll) ==
    BadEnumPayloads(coll) \cup NegativeTotalPayloads(coll) \cup MissingFieldPayloads(coll)

Payloads(coll) == ValidPayloads(coll) \cup InvalidPayloads(coll)

\* Query parameters: absent, empty, or a value.
Terms == {None, Some(ab)}
TermsWide == {None, Some(<<>>), Some(<<"A">>), Some(<<".">>), Some(<<"b", "a">>)}
TermsSome == {None, Some(<<"A">>), Some(<<".">>)}
Strs(v) == {None, Some(v)}
StrsWide(v) == {None, Some(""), Some(v)}
YearsWide == {None, Some(0), Some(1999)}
LimitsWide == {None, Some(0 - 1), Some(0), Some(1)}

\* ---------------------------------------------------------- specifications

EmptyStore == [c \in Collections |-> {}]

NoRequest ==
    [op |-> "none", coll |-> "", payload |-> <<>>, q |-> None, args |-> <<>>,
     limit |-> None]

Init ==
    /\ db \in {"connected", "none"}
    /\ store = EmptyStore
    /\ nextId = 1
    /\ req = NoRequest
    /\ resp = Resp(0, 0, {})
    /\ last_create = NoCreate
    /\ th = [t \in Threads |-> IdleThread]

\* The whole API, one request after another.
Next ==
    \/ read_root
    \/ test_database
    \/ get_schema
    \/ \E P \in Payloads("client") : create_client(P)
    \/ \E P \in MinimalPayloads("case") \cup InvalidPayloads("case") : create_case(P)
    \/ \E P \in Payloads("task") : create_task(P)
    \/ \E P \in Payloads("invoice") : create_invoice(P)
    \/ \E P \in Payloads("setting") : create_setting(P)
    \/ \E P \in MinimalPayloads("legaldocument") \cup InvalidPayloads("legaldocument") :
          create_legal_doc(P)
    \/ \E P \in MinimalPayloads("assistantmessage") \cup InvalidPayloads("assistantmessage") :
          add_message(P)
    \/ \E q \in Terms : list_clients(q, None)
    \/ \E q \in Terms, s \in Strs("open") : list_cases(q, None, s, None)
    \/ \E s \in Strs("done") : list_tasks(None, s, None, None)
    \/ \E s \in Strs("paid") : list_invoices(None, None, s, None)
    \/ \E s \in Strs("user") : list_settings(s, None, None)
    \/ \E q \in Terms, y \in Strs(1999) : search_legal_docs(q, None, None, y, None)
    \/ \E c \in Strs("v1") : list_messages(c, None, None)

Spec == Init /\ [][Next]_vars

\* The list endpoints under every kind of parameter value: absent, empty,
\* zero, negative, regular-expression characters.
NextQuery ==
    \/ \E P \in ValidPayloads("client") : create_client(P)
    \/ \E P \in ValidPayloads("case") : create_case(P)
    \/ \E P \in RichPayloads("task") : create_task(P)
    \/ \E P \in RichPayloads("invoice") : create_invoice(P)
    \/ \E P \in RichPayloads("setting") : create_setting(P)
    \/ \E P \in ValidPayloads("legaldocument") : create_legal_doc(P)
    \/ \E P \in RichPayloads("assistantmessage") : add_message(P)
    \/ \E q \in TermsWide, l \in LimitsWide : list_clients(q, l)
    \/ \E q \in TermsSome, c \in Strs("c1"), s \in StrsWide("open"), l \in Strs(1) :
          list_cases(q, c, s, l)
    \/ \E c \in Strs("k1"), s \in StrsWide("done"), l \in LimitsWide :
          list_tasks(c, s, None, l)
    \/ \E c \in StrsWide("c1"), s \in Strs("paid"), l \in Strs(0) :
          list_invoices(c, None, s, l)
    \/ \E s \in StrsWide("user"), u \in Strs("u1"), l \in Strs(0 - 1) :
          list_settings(s, u, l)
    \/ \E q \in Strs(<<".">>), j \in StrsWide("US"), y \in YearsWide :
          search_legal_docs(q, None, j, y, None)
    \/ \E c \in StrsWide("v1"), l \in Strs(1) : list_messages(c, None, l)

SpecQuery == Init /\ [][NextQuery]_vars

\* A store that already holds documents when the process starts: one
\* collection is one document short of its list endpoint's default limit.
Prefilled(coll, n) ==
    [EmptyStore EXCEPT ![coll] =
        {Dump(ModelOf(coll), CHOOSE P \in MinimalPayloads(coll) : TRUE) @@ ("_id" :> i) :
            i \in 1..n}]

InitBulk ==
    /\ db = "connected"
    /\ \E c \in Collections, n \in PrefillSizes :
          /\ n \in {0, IF c \in {"setting", "assistantmessage"} THEN 99 ELSE 49}
          /\ store = Prefilled(c, n)
          /\ nextId = n + 1
    /\ req = NoRequest
    /\ resp = Resp(0, 0, {})
    /\ last_create = NoCreate
    /\ th = [t \in Threads |-> IdleThread]

\* Creates, each possibly followed by a default list (a list after a list
\* repeats the same read and is left out).
NextBulk ==
    \/ \E P \in ValidPayloads("client") : create_client(P)
    \/ \E P \in MinimalPayloads("case") : create_case(P)
    \/ \E P \in MinimalPayloads("task") : create_task(P)
    \/ \E P \in MinimalPayloads("invoice") : create_invoice(P)
    \/ \E P \in RichPayloads("setting") : create_setting(P)
    \/ \E P \in MinimalPayloads("legaldocument") : create_legal_doc(P)
    \/ \E P \in MinimalPayloads("assistantmessage") : add_message(P)
    \/ req.op # "list" /\ list_clients(None, None)
    \/ req.op # "list" /\ list_cases(None, None, None, None)
    \/ req.op # "list" /\ list_tasks(None, None, None, None)
    \/ req.op # "list" /\ list_invoices(None, None, None, None)
    \/ req.op # "list" /\ list_settings(None, None, None)
    \/ req.op # "list" /\ search_legal_docs(None, None, None, None, None)
    \/ req.op # "list" /\ list_messages(None, None, None)

SpecBulk == InitBulk /\ [][NextBulk]_vars

\* Two create requests in flight at once.
NextConc ==
    \/ \E t \in Threads, c \in Collections :
          \E P \in Payloads(c) : create_begin(t, c, ModelOf(c), P)
    \/ \E t \in Threads : create_insert(t)
    \/ \E t \in Threads : create_return(t)

SpecConc == Init /\ [][NextConc]_vars

\* ------------------------------------------------------------------ claims

\* A document without its identifier.
Body(d) == [f \in DOMAIN d \ {"_id"} |-> d[f]]

\* The default of a list endpoint's limit parameter.
DefaultLimit(coll) == IF coll \in {"setting", "assistantmessage"} THEN 100 ELSE 50

\* The request is a list with no search term, no filter and the default limit.
PlainList ==
    /\ req.op = "list"
    /\ req.q = None
    /\ \A f \in DOMAIN req.args : req.args[f] = None
    /\ req.limit = None

\* The request is such a list, answered, right after a successful create on
\* the same entity.
ListAfterCreate ==
    /\ PlainList
    /\ resp.status = 200
    /\ last_create # NoCreate
    /\ last_create.coll = req.coll

\* The list holds exactly one document with the create's identifier, and it
\* is the create's payload with the defaults applied.
ListsTheCreated ==
    LET hits == {d \in resp.body : d["_id"] = last_create.id} IN
    /\ Cardinality(hits) = 1
    /\ \A d \in hits : Body(d) = Dump(ModelOf(req.coll), last_create.payload)

\* A valid create on a connected store answers with an identifier.
CreateReturnsId ==
    (req.op = "create" /\ db = "connected" /\ req.payload \in ValidPayloads(req.coll))
        => resp.status = 200 /\ resp.id >= 1

\* C1 as claimed: in any store state, create(T, P) returns an identifier I
\* and the list(T) that follows it at once, with no search term, no filter
\* and the default limit, holds exactly one document bearing I, equal to P
\* with the defaults applied.
C1_CreateThenList == CreateReturnsId /\ (ListAfterCreate => ListsTheCreated)

\* C1 as amended: the same, for a collection that holds no more documents
\* than the list endpoint's default limit.
C1_CreateThenListWithinLimit ==
    /\ CreateReturnsId
    /\ (ListAfterCreate /\ Cardinality(store[req.coll]) <= DefaultLimit(req.coll))
          => ListsTheCreated

\* C1's case: a list after a create that filled the collection exactly to
\* the default limit, every document returned.
C1_Witness ==
    /\ ListAfterCreate
    /\ Cardinality(store[req.coll]) = DefaultLimit(req.coll)
    /\ resp.body = store[req.coll]

\* The bodies C2 is about: an enum field outside its set, or a negative total.
Rejectable(coll) == BadEnumPayloads(coll) \cup NegativeTotalPayloads(coll)

\* C2: a create whose body fails validation (an enum field outside its
\* declared set, an invoice total below 0) is answered with a client error
\* and leaves every collection as it was.
C2_InvalidRejected ==
    [][(req'.op = "create" /\ req'.payload \in Rejectable(req'.coll))
          => (resp'.status = 422 /\ store' = store)]_vars

\* C2's case: the negative-total invoice rejected on a store that holds invoices.
C2_Witness ==
    /\ req.op = "create"
    /\ req.payload \in NegativeTotalPayloads("invoice")
    /\ resp.status = 422
    /\ store["invoice"] # {}

\* C3 as claimed: a list never returns more documents than its limit
\* parameter (the endpoint's default when absent), whatever integer it is.
C3_LimitRespected ==
    (req.op = "list" /\ resp.status = 200)
        => Cardinality(resp.body) <= Lim(req.limit, DefaultLimit(req.coll))

\* q is a case-insensitive substring of text s.
ContainsCI(s, q) ==
    \E i \in 1..(Len(s) - Len(q) + 1) : \A j \in 1..Len(q) : Lower(q[j]) = Lower(s[i + j - 1])

\* q is a case-insensitive substring of one of d's searchable fields.
ContainsTerm(d, q) == \E f \in SearchKeys : \E s \in FieldText(d, f) : ContainsCI(s, q)

\* C4 as claimed: for a non-empty term q, the documents a search returns
\* (no other filter, default limit) are exactly those with q as a
\* case-insensitive substring of a title, name, description or content.
C4_SubstringSearch ==
    (/\ req.op = "list"
     /\ resp.status = 200
     /\ TruthyText(req.q)
     /\ \A f \in DOMAIN req.args : req.args[f] = None
     /\ req.limit = None)
        => resp.body = {d \in store[req.coll] : ContainsTerm(d, req.q[1])}

\* C5 as claimed: a case list with a term q and a status filter s returns
\* only cases of status s that contain q in the title or the description.
C5_SearchAndStatus ==
    (/\ req.op = "list"
     /\ req.coll = "case"
     /\ resp.status = 200
     /\ TruthyText(req.q)
     /\ req.args["status"] # None)
        => \A d \in resp.body :
              d["status"] = req.args["status"][1] /\ ContainsTerm(d, req.q[1])

\* C6: with no store configured, GET /test answers normally with a
\* not-connected status and no collections, and POST /clients with a valid
\* body ends in a server error without an identifier.
C6_NoStore ==
    db = "none" =>
        /\ req.op = "test" =>
              /\ resp.status = 200
              /\ resp.diag.connection_status = "Not Connected"
              /\ resp.diag.database = "Available but not initialized"
              /\ resp.diag.collections = {}
        /\ (req.op = "create" /\ req.coll = "client"
                /\ req.payload \in ValidPayloads("client"))
              => resp.status = 500 /\ resp.id = 0

\* C6's case: GET /test answered with no store configured.
C6_Witness == db = "none" /\ req.op = "test" /\ resp.status = 200

\* Both concurrent requests are answered, with valid bodies on a connected store.
BothCreated ==
    /\ db = "connected"
    /\ \A t \in Threads : th[t].pc = "done" /\ th[t].payload \in ValidPayloads(th[t].coll)

\* C7: two concurrent creates both persist, return distinct identifiers, and
\* each returns the identifier of the document made from its own payload,
\* under every interleaving.
C7_ConcurrentCreates ==
    BothCreated =>
        /\ \A t \in Threads :
              /\ th[t].status = 200
              /\ \E d \in store[th[t].coll] :
                    /\ d["_id"] = th[t].out
                    /\ Body(d) = Dump(ModelOf(th[t].coll), th[t].payload)
        /\ \A t, u \in Threads : t # u => th[t].out # th[u].out
        /\ Cardinality(UNION {store[c] : c \in Collections}) = Cardinality(Threads)

\* C7's case: both answered, the request entered second persisted first.
C7_Witness == BothCreated /\ th[2].out = 1 /\ th[1].out = 2 /\ th[1].coll # th[2].coll

\* C8: only a create changes the store, and a stored document stays stored
\* with its identifier and its field values.
C8_InsertOnly ==
    [][/\ req'.op # "create" => store' = store
       /\ \A c \in Collections : store[c] \subseteq store'[c]]_vars

\* C8's case: a list answered with two documents of one collection.
C8_Witness == req.op = "list" /\ resp.status = 200 /\ Cardinality(resp.body) = 2

\* The defaults C9 names: the declared scalar defaults, the empty list for a
\* list field, the empty map for a map field.
DeclaredDefaults(coll) ==
    CASE coll = "client" -> [type |-> "individual", status |-> "active"]
      [] coll = "case" ->
           [status |-> "open", priority |-> "medium", assignees |-> <<>>, tags |-> <<>>]
      [] coll = "task" -> [status |-> "todo", priority |-> "medium", checklist |-> <<>>]
      [] coll = "invoice" -> [currency |-> "USD", status |-> "draft", items |-> <<>>]
      [] coll = "setting" -> [scope |-> "org", value |-> <<>>]
      [] coll = "legaldocument" -> [tags |-> <<>>]
      [] coll = "assistantmessage" -> [role |-> "user"]

\* C9: the document a valid create stores holds the payload's fields as
\* submitted and every absent field that has a declared default at that default.
C9_DefaultsStored ==
    (req.op = "create" /\ resp.status = 200) =>
        \E d \in store[req.coll] :
            /\ d["_id"] = resp.id
            /\ \A f \in DOMAIN req.payload : f \in DOMAIN d /\ d[f] = req.payload[f]
            /\ \A f \in DOMAIN DeclaredDefaults(req.coll) \ DOMAIN req.payload :
                  f \in DOMAIN d /\ d[f] = DeclaredDefaults(req.coll)[f]

\* C9's case: POST /tasks with a title only, stored.
C9_Witness ==
    /\ req.op = "create"
    /\ req.coll = "task"
    /\ DOMAIN req.payload = {"title"}
    /\ resp.status = 200

\* C10 as claimed: every filter parameter the caller supplies, whatever its
\* value, holds of every document returned.
C10_FilterApplied ==
    (req.op = "list" /\ resp.status = 200) =>
        \A f \in DOMAIN req.args :
            req.args[f] # None => \A d \in resp.body : FieldEq(d, f, req.args[f][1])

====
